---- MODULE Spec2Model ----
(***************************************************************************)
(* Cylindrical unfolding projection of the EventDisplay repository.        *)
(*                                                                         *)
(* Four implementations of the projection live in the repository:          *)
(*   project2d       src/src/utils/root/project_2d_from_root.py  ("root")  *)
(*   project2d       src/event_display.py                        ("ed")    *)
(*   project2d_slow  src/event_display.py                        ("slow")  *)
(*   project2d       src/python/event_display.py                 ("py")    *)
(*                                                                         *)
(* Numbers.  Lengths are integers in units of 0.001 (cm).  Angles are      *)
(* integers in units of pi/4; the hits considered have |x| = |y|, x = 0 or *)
(* y = 0, so arctan2 is exact in these units.  A projected coordinate is a *)
(* record [r, q] standing for the real number r*0.001 + q*0.001*(pi/4);    *)
(* since pi is transcendental, equality of records is equality of reals.   *)
(*                                                                         *)
(* The WCTE branch of src/python/event_display.py rotates the hits by      *)
(* thetaz = 4.53 rad, which has no exact value in this number domain; that *)
(* implementation is modelled for the experiments that take its else       *)
(* branch.                                                                 *)
(***************************************************************************)
EXTENDS Integers, Sequences, FiniteSets, TLC

VARIABLES experiment, X, Y, Z, fn, pc, Xproj, Yproj, written

projVars == <<experiment, X, Y, Z, fn, pc, Xproj, Yproj, written>>

\* State of the neighbour precomputation of
\* src/geometries/scripts/compute_pmt_distances.py; worker_rows is used only
\* when the chunks are handed to independent workers.
VARIABLES pmt_df, chunk_size, max_distance, dpc, ci, chunks_done, worker_rows,
          distance_matrix, row_writes, ki, knn_lookup

nbVars == <<pmt_df, chunk_size, max_distance, dpc, ci, chunks_done, worker_rows,
            distance_matrix, row_writes, ki, knn_lookup>>

\* the neighbour precomputation is not running
NbIdle ==
  /\ pmt_df = <<>>
  /\ chunk_size = 1
  /\ max_distance = <<>>
  /\ dpc = "idle"
  /\ ci = 0
  /\ chunks_done = {}
  /\ worker_rows = {}
  /\ distance_matrix = <<>>
  /\ row_writes = <<>>
  /\ ki = 0
  /\ knn_lookup = <<>>

\* no projection is being called
ProjIdle ==
  /\ experiment = "A"
  /\ X = <<>> /\ Y = <<>> /\ Z = <<>>
  /\ fn = "none"
  /\ pc = "idle"
  /\ Xproj = <<>> /\ Yproj = <<>> /\ written = <<>>

\* State of the event selection, the loading and the Tk display:
\* events_index_bounds and the loaders of
\* src/src/utils/root/load_data_from_root.py, src/event_display.py and
\* src/python/event_display.py, and src/src/displays/tk_2d_display.py.
\* Events are named by their index in the file, counted from 0; all_data is
\* the sequence of the indices of the events loaded, wE the position of the
\* event slider, wB the content of the entry box (a sequence of characters),
\* shown the event whose hits are drawn (-1: none yet), last the last action
\* of the user and outcome how its handler ended.
VARIABLES events_to_display, n_events, impl, vpc, is_contiguous, bounds,
          all_data, event_indices, wE, wB, shown, last, outcome

viewVars == <<events_to_display, n_events, impl, vpc, is_contiguous, bounds,
              all_data, event_indices, wE, wB, shown, last, outcome>>

\* nothing is being selected, loaded or displayed
ViewIdle ==
  /\ events_to_display = [kind |-> "all", v |-> <<>>]
  /\ n_events = 0
  /\ impl = "none"
  /\ vpc = "idle"
  /\ is_contiguous = TRUE
  /\ bounds = <<>>
  /\ all_data = <<>>
  /\ event_indices = <<>>
  /\ wE = 0
  /\ wB = <<>>
  /\ shown = -1
  /\ last = "none"
  /\ outcome = "none"

\* State of a call of one of the functions of src/src/event_augmentation.py
\* and src/geometries/scripts/compute_z_curves.py: the function called, its
\* arguments, the objects in memory and the value returned.
VARIABLES callee, args, heap, result

callVars == <<callee, args, heap, result>>

\* no such function is being called
CallIdle ==
  /\ callee = "none"
  /\ args = <<>>
  /\ heap = <<>>
  /\ result = <<>>

----------------------------------------------------------------------------
(* Bounds of the model *)

\* largest number of events in a batch
MaxEvents == 2
\* largest total number of hits in a batch
MaxHits == 3

----------------------------------------------------------------------------
(* Numbers *)

Rat(a) == [r |-> a, q |-> 0]
PiQuarters(a) == [r |-> 0, q |-> a]
Zero == Rat(0)

\* numpy.arctan2(y, x) in units of pi/4, range (-pi, pi]
arctan2(y, x) ==
  CASE y = 0 /\ x >= 0 -> 0
    [] y = 0 /\ x < 0 -> 4
    [] x = 0 /\ y > 0 -> 2
    [] x = 0 /\ y < 0 -> -2
    [] x > 0 /\ y = x -> 1
    [] x < 0 /\ y = -x -> 3
    [] x < 0 /\ y = x -> -3
    [] x > 0 /\ y = -x -> -1

----------------------------------------------------------------------------
(* Detector geometries *)

\* Entries SK, WCTE and DEMO are those of the repository's tables; entry A
\* is the cylinder of scenario A (height 10, radius 2), a configuration
\* supplied to the projection as any other detector.  Entries R0, Rneg and
\* H0 are configurations with a radius or a height that is not positive.
DETECTOR_GEOM ==
  [SK |-> [height |-> 3620000, cylinder_radius |-> 1684075],
   WCTE |-> [height |-> 338000, cylinder_radius |-> 184800],
   DEMO |-> [height |-> 1117840, cylinder_radius |-> 558920],
   A |-> [height |-> 10000, cylinder_radius |-> 2000],
   R0 |-> [height |-> 10000, cylinder_radius |-> 0],
   Rneg |-> [height |-> 10000, cylinder_radius |-> -2000],
   H0 |-> [height |-> 0, cylinder_radius |-> 2000]]

\* the configurations whose geometry is not valid
InvalidGeoms ==
  {e \in DOMAIN DETECTOR_GEOM :
     DETECTOR_GEOM[e].height <= 0 \/ DETECTOR_GEOM[e].cylinder_radius <= 0}

Experiments == DOMAIN DETECTOR_GEOM \ InvalidGeoms

\* experiments of the detector_geom dictionaries of src/event_display.py and
\* src/python/event_display.py (SK, HK, WCTE) plus the scenario cylinder and
\* the invalid configurations
detector_geom_keys == {"SK", "WCTE", "A"} \cup InvalidGeoms

----------------------------------------------------------------------------
(* Jagged arrays: a batch is a sequence of events, an event a sequence of  *)
(* per-hit values.  The operators below are the elementwise array          *)
(* operations the vectorised code uses.                                    *)

zeros_like(A) == [e \in DOMAIN A |-> [i \in DOMAIN A[e] |-> Zero]]

ak_where(C, A, B) ==
  [e \in DOMAIN C |-> [i \in DOMAIN C[e] |-> IF C[e][i] THEN A[e][i] ELSE B[e][i]]]

\* the values of all hits of all events
Flat(A) == UNION {{A[e][i] : i \in DOMAIN A[e]} : e \in DOMAIN A}

np_max(A) == CHOOSE m \in Flat(A) : \A v \in Flat(A) : v <= m
np_min(A) == CHOOSE m \in Flat(A) : \A v \in Flat(A) : m <= v

----------------------------------------------------------------------------
(* Axis realignment (quarter turns, so that cos and sin are exact) *)

\* cos and sin of k*pi/2
cosq(k) == CASE k % 4 = 0 -> 1 [] k % 4 = 1 -> 0 [] k % 4 = 2 -> -1 [] k % 4 = 3 -> 0
sinq(k) == CASE k % 4 = 0 -> 0 [] k % 4 = 1 -> 1 [] k % 4 = 2 -> 0 [] k % 4 = 3 -> -1

\* thetax = np.pi/2 and thetaz = 0 of project_2d_from_root.py, in quarter turns
thetax == 1
thetaz == 0

\* Rotate with the sign of the sin term of Y_Rx slipped
Rotate_signSlip(X0, Y0, Z0) ==
  [X |-> X0,
   Y |-> [e \in DOMAIN Y0 |-> [i \in DOMAIN Y0[e] |->
            cosq(thetax) * Y0[e][i] + sinq(thetax) * Z0[e][i]]],
   Z |-> [e \in DOMAIN Y0 |-> [i \in DOMAIN Y0[e] |->
            sinq(thetax) * Y0[e][i] + cosq(thetax) * Z0[e][i]]]]

\* the hits after the rotation about x then about z
Rotate(X0, Y0, Z0) ==
  LET X_Rx == X0
      Y_Rx == [e \in DOMAIN Y0 |-> [i \in DOMAIN Y0[e] |->
                 cosq(thetax) * Y0[e][i] - sinq(thetax) * Z0[e][i]]]
      Z_Rx == [e \in DOMAIN Y0 |-> [i \in DOMAIN Y0[e] |->
                 sinq(thetax) * Y0[e][i] + cosq(thetax) * Z0[e][i]]]
  IN [X |-> [e \in DOMAIN X_Rx |-> [i \in DOMAIN X_Rx[e] |->
               cosq(thetaz) * X_Rx[e][i] + sinq(thetaz) * Y_Rx[e][i]]],
      Y |-> [e \in DOMAIN X_Rx |-> [i \in DOMAIN X_Rx[e] |->
               (0 - sinq(thetaz)) * X_Rx[e][i] + cosq(thetaz) * Y_Rx[e][i]]],
      Z |-> Z_Rx]

\* rotate_data of src/src/utils/root/load_data_from_root.py on the hit
\* arrays: hitx_r = hitx, hity_r = -hitz, hitz_r = hity
rotate_data(X0, Y0, Z0) ==
  [X |-> X0,
   Y |-> [e \in DOMAIN Z0 |-> [i \in DOMAIN Z0[e] |-> 0 - Z0[e][i]]],
   Z |-> Y0]

\* experiments whose hits project2d of project_2d_from_root.py realigns
Realigned == {"WCTE_r", "DEMO"}

\* the coordinates project2d of project_2d_from_root.py classifies and maps
Aligned(X0, Y0, Z0, exp) ==
  IF exp \in Realigned THEN Rotate(X0, Y0, Z0) ELSE [X |-> X0, Y |-> Y0, Z |-> Z0]

----------------------------------------------------------------------------
(* Cap boundary margins chosen by each implementation *)

eps_root(exp) ==
  IF exp \in Realigned THEN [top |-> 10000, bottom |-> 10000]
  ELSE IF exp = "WCTE" THEN [top |-> 10000, bottom |-> 10000]
  ELSE [top |-> 10, bottom |-> 10]

eps_ed(exp) ==
  IF exp = "WCTE" THEN [top |-> 60000, bottom |-> 50000]
  ELSE [top |-> 10, bottom |-> 10]

eps_py(exp) ==
  IF exp = "WCTE" THEN [top |-> 50000, bottom |-> 50000]
  ELSE [top |-> 10, bottom |-> 10]

----------------------------------------------------------------------------
(* The vectorised mapping shared by the three project2d implementations:   *)
(* the three masks, then the writes of the cylinder, the top cap and the   *)
(* bottom cap, in that order.  azimuth is the array of angles in units of  *)
(* pi/4.                                                                   *)

\* the region mappings that wrote entry (e, i), in the order of the writes
Writes(top, bottom, cyl) ==
  [e \in DOMAIN top |-> [i \in DOMAIN top[e] |->
     (IF cyl[e][i] THEN <<"barrel">> ELSE <<>>)
     \o (IF top[e][i] THEN <<"topCap">> ELSE <<>>)
     \o (IF bottom[e][i] THEN <<"bottomCap">> ELSE <<>>)]]

MaskedWrites(Xa, Ya, Za, azimuth, cylinder_radius, zMax, zMin, eps) ==
  LET top_cap_mask == [e \in DOMAIN Za |-> [i \in DOMAIN Za[e] |->
                         Za[e][i] > zMax - eps.top]]
      bottom_cap_mask == [e \in DOMAIN Za |-> [i \in DOMAIN Za[e] |->
                            Za[e][i] < zMin + eps.bottom]]
      cylinder_mask == [e \in DOMAIN Za |-> [i \in DOMAIN Za[e] |->
                          ~(top_cap_mask[e][i] \/ bottom_cap_mask[e][i])]]
      Xcyl == [e \in DOMAIN Za |-> [i \in DOMAIN Za[e] |->
                 PiQuarters(cylinder_radius * (azimuth[e][i] - 4))]]
      Ycyl == [e \in DOMAIN Za |-> [i \in DOMAIN Za[e] |-> Rat(Za[e][i])]]
      Xcap == [e \in DOMAIN Za |-> [i \in DOMAIN Za[e] |-> Rat(0 - Ya[e][i])]]
      Ytop == [e \in DOMAIN Za |-> [i \in DOMAIN Za[e] |->
                 Rat(Xa[e][i] + zMax + cylinder_radius)]]
      Ybot == [e \in DOMAIN Za |-> [i \in DOMAIN Za[e] |->
                 Rat(0 - Xa[e][i] + zMin - cylinder_radius)]]
      Xp1 == ak_where(cylinder_mask, Xcyl, zeros_like(Xa))
      Yp1 == ak_where(cylinder_mask, Ycyl, zeros_like(Ya))
      Xp2 == ak_where(top_cap_mask, Xcap, Xp1)
      Yp2 == ak_where(top_cap_mask, Ytop, Yp1)
      Xp3 == ak_where(bottom_cap_mask, Xcap, Xp2)
      Yp3 == ak_where(bottom_cap_mask, Ybot, Yp2)
  IN [pc |-> "returned", Xproj |-> Xp3, Yproj |-> Yp3,
      written |-> Writes(top_cap_mask, bottom_cap_mask, cylinder_mask)]

\* np.arctan2(Y, X) on arrays
arctan2_arr(Ya, Xa) ==
  [e \in DOMAIN Ya |-> [i \in DOMAIN Ya[e] |-> arctan2(Ya[e][i], Xa[e][i])]]

\* ak.where(azimuth < 0, 2*np.pi + azimuth, azimuth)
normalise(azimuth) ==
  [e \in DOMAIN azimuth |-> [i \in DOMAIN azimuth[e] |->
     IF azimuth[e][i] < 0 THEN 8 + azimuth[e][i] ELSE azimuth[e][i]]]

\* the outcome of a call that raises: nothing is returned
Raised == [pc |-> "raised", Xproj |-> <<>>, Yproj |-> <<>>, written |-> <<>>]

\* the three coordinate arrays have the same events and the same number of
\* hits in each event; the elementwise operations (np.arctan2(Y, X),
\* ak.where on the masks) fail to broadcast lists of different lengths
SameShape(X0, Y0, Z0) ==
  /\ DOMAIN X0 = DOMAIN Y0 /\ DOMAIN Y0 = DOMAIN Z0
  /\ \A e \in DOMAIN X0 : DOMAIN X0[e] = DOMAIN Y0[e] /\ DOMAIN Y0[e] = DOMAIN Z0[e]

\* project2d of src/src/utils/root/project_2d_from_root.py: the cap
\* positions zMax and zMin are the largest and smallest z of the batch;
\* np.max of a batch without hits raises
project2d_root(X0, Y0, Z0, exp) ==
  LET a == Aligned(X0, Y0, Z0, exp)
  IN IF ~SameShape(X0, Y0, Z0) THEN Raised
     ELSE IF Flat(a.Z) = {} THEN Raised
     ELSE MaskedWrites(a.X, a.Y, a.Z, normalise(arctan2_arr(a.Y, a.X)),
                       DETECTOR_GEOM[exp].cylinder_radius,
                       np_max(a.Z), np_min(a.Z), eps_root(exp))

\* project2d of src/event_display.py: the azimuth is not normalised
project2d_ed(X0, Y0, Z0, exp) ==
  IF ~SameShape(X0, Y0, Z0) THEN Raised
  ELSE
  MaskedWrites(X0, Y0, Z0, arctan2_arr(Y0, X0),
               DETECTOR_GEOM[exp].cylinder_radius,
               DETECTOR_GEOM[exp].height \div 2,
               0 - (DETECTOR_GEOM[exp].height \div 2), eps_ed(exp))

\* project2d of src/python/event_display.py, else branch (no realignment)
project2d_py(X0, Y0, Z0, exp) ==
  IF ~SameShape(X0, Y0, Z0) THEN Raised
  ELSE
  MaskedWrites(X0, Y0, Z0, normalise(arctan2_arr(Y0, X0)),
               DETECTOR_GEOM[exp].cylinder_radius,
               DETECTOR_GEOM[exp].height \div 2,
               0 - (DETECTOR_GEOM[exp].height \div 2), eps_py(exp))

----------------------------------------------------------------------------
(* project2d_slow of src/event_display.py: one event, hit by hit *)

RECURSIVE slow_loop(_, _, _, _, _, _, _, _)
slow_loop(x, y, z, exp, i, xproj, yproj, wr) ==
  LET cylinder_radius == DETECTOR_GEOM[exp].cylinder_radius
      zMax == DETECTOR_GEOM[exp].height \div 2
      zMin == 0 - (DETECTOR_GEOM[exp].height \div 2)
      eps == eps_ed(exp)
      azimuth0 == arctan2(y[i], x[i])
      azimuth == IF azimuth0 < 0 THEN 8 + azimuth0 ELSE azimuth0
  IN IF i > Len(x)
       THEN [pc |-> "returned", xproj |-> xproj, yproj |-> yproj, wr |-> wr]
     ELSE IF i > Len(z) \/ i > Len(y)
       \* z[i] or y[i] past the end of a shorter array: IndexError
       THEN [pc |-> "raised", xproj |-> <<>>, yproj |-> <<>>, wr |-> <<>>]
     ELSE IF z[i] < zMax - eps.top /\ z[i] > zMin + eps.bottom
       THEN slow_loop(x, y, z, exp, i + 1,
                      Append(xproj, PiQuarters(cylinder_radius * (azimuth - 4))),
                      Append(yproj, Rat(z[i])),
                      Append(wr, <<"barrel">>))
     ELSE IF z[i] > zMax - eps.top
       THEN slow_loop(x, y, z, exp, i + 1,
                      Append(xproj, Rat(0 - y[i])),
                      Append(yproj, Rat(x[i] + zMax + cylinder_radius)),
                      Append(wr, <<"topCap">>))
     ELSE slow_loop(x, y, z, exp, i + 1,
                    Append(xproj, Rat(0 - y[i])),
                    Append(yproj, Rat(0 - x[i] + zMin - cylinder_radius)),
                    Append(wr, <<"bottomCap">>))

\* project2d_slow called on each event of the batch in turn, as by
\* load_data_slow
project2d_slow(X0, Y0, Z0, exp) ==
  LET ev(e) == slow_loop(X0[e], Y0[e], Z0[e], exp, 1, <<>>, <<>>, <<>>)
  IN IF \E e \in DOMAIN X0 : ev(e).pc = "raised" THEN Raised
     ELSE [pc |-> "returned",
           Xproj |-> [e \in DOMAIN X0 |-> ev(e).xproj],
           Yproj |-> [e \in DOMAIN X0 |-> ev(e).yproj],
           written |-> [e \in DOMAIN X0 |-> ev(e).wr]]

----------------------------------------------------------------------------
(* Inputs: the batches of hits *)

\* margins that place the boundary hits of an experiment
EdgeEps(exp) == IF exp \in Realigned THEN eps_root(exp) ELSE eps_ed(exp)

\* Hits in the frame the projection classifies: on the axes, on the
\* diagonals or at the origin in (x, y); z at the top, at the top boundary,
\* in the middle, at the bottom boundary or at the bottom of the cylinder.
FrameHits(exp) ==
  LET top == DETECTOR_GEOM[exp].height \div 2
      bot == 0 - top
      topEdge == top - EdgeEps(exp).top
      botEdge == bot + EdgeEps(exp).bottom
  IN {<<1000, 0, 0>>, <<0, 1000, 0>>, <<-1000, 0, top>>, <<0, 0, top>>,
      <<0, -1000, topEdge>>, <<-1000, -1000, botEdge>>, <<1000, -1000, bot>>,
      <<0, 0, 0>>}

\* The hits as supplied: for a realigned experiment, the hits that the
\* rotation (x, y, z) -> (x, -z, y) brings to the frame above.
HitUniverse(exp) ==
  IF exp \in Realigned
  THEN {<<h[1], h[3], 0 - h[2]>> : h \in FrameHits(exp)}
  ELSE FrameHits(exp)

\* batches of exactly m events with at most n hits in total, over hits H
RECURSIVE BatchesOf(_, _, _)
BatchesOf(m, n, H) ==
  IF m = 0 THEN {<<>>}
  ELSE UNION {
         UNION { {<<ev>> \o b : b \in BatchesOf(m - 1, n - k, H)}
                 : ev \in [1..k -> H] }
         : k \in 0..n }

Batches(exp) == UNION {BatchesOf(m, MaxHits, HitUniverse(exp)) : m \in 0..MaxEvents}

Coord(b, c) == [e \in DOMAIN b |-> [i \in DOMAIN b[e] |-> b[e][i][c]]]

----------------------------------------------------------------------------
(* The state machine: a caller holds a batch and calls one projection *)

ProjInit ==
  /\ experiment \in Experiments
  /\ \E b \in Batches(experiment) :
       /\ X = Coord(b, 1)
       /\ Y = Coord(b, 2)
       /\ Z = Coord(b, 3)
  /\ fn = "none"
  /\ pc = "call"
  /\ Xproj = <<>>
  /\ Yproj = <<>>
  /\ written = <<>>
  /\ NbIdle
  /\ ViewIdle
  /\ CallIdle

Return(name, res) ==
  /\ fn' = name
  /\ pc' = res.pc
  /\ Xproj' = res.Xproj
  /\ Yproj' = res.Yproj
  /\ written' = res.written
  /\ UNCHANGED <<experiment, X, Y, Z>>
  /\ UNCHANGED nbVars
  /\ UNCHANGED viewVars
  /\ UNCHANGED callVars

CallRoot ==
  /\ pc = "call"
  /\ Return("root", project2d_root(X, Y, Z, experiment))

CallEd ==
  /\ pc = "call"
  /\ experiment \in detector_geom_keys
  /\ Return("ed", project2d_ed(X, Y, Z, experiment))

CallSlow ==
  /\ pc = "call"
  /\ experiment \in detector_geom_keys
  /\ Return("slow", project2d_slow(X, Y, Z, experiment))

CallPy ==
  /\ pc = "call"
  /\ experiment \in detector_geom_keys \ {"WCTE"}
  /\ Return("py", project2d_py(X, Y, Z, experiment))

ProjNext == CallRoot \/ CallEd \/ CallSlow \/ CallPy

ProjSpec == ProjInit /\ [][ProjNext]_projVars

TypeOK ==
  /\ experiment \in Experiments
  /\ fn \in {"none", "root", "ed", "slow", "py"}
  /\ pc \in {"call", "returned", "raised"}
  /\ DOMAIN X = DOMAIN Y /\ DOMAIN Y = DOMAIN Z

----------------------------------------------------------------------------
(* Vocabulary of the properties *)

\* the positions (event, hit) of the batch
Idx == UNION {{<<e, i>> : i \in DOMAIN X[e]} : e \in DOMAIN X}

\* the hit coordinates after the optional axis realignment of the call
Al == IF fn = "root" THEN Aligned(X, Y, Z, experiment) ELSE [X |-> X, Y |-> Y, Z |-> Z]

\* the margins the called implementation configures for the experiment
MarginsOf(f, exp) ==
  CASE f = "root" -> eps_root(exp)
    [] f \in {"ed", "slow"} -> eps_ed(exp)
    [] f = "py" -> eps_py(exp)

\* the configured detector height and barrel radius
Height == DETECTOR_GEOM[experiment].height
Radius == DETECTOR_GEOM[experiment].cylinder_radius

\* the region a hit at height z belongs to, thresholds from the geometry
RegionOf(z, m) ==
  IF z > (Height \div 2) - m.top THEN "topCap"
  ELSE IF z < (0 - (Height \div 2)) + m.bottom THEN "bottomCap"
  ELSE "barrel"

\* the region whose mapping produced the output that stands at position p
Standing(p) == written[p[1]][p[2]][Len(written[p[1]][p[2]])]

\* azimuth in [0, 2*pi), in units of pi/4
Theta(y, x) == IF arctan2(y, x) < 0 THEN arctan2(y, x) + 8 ELSE arctan2(y, x)

\* the 2D point of each region mapping, height from the geometry
BarrelPoint(x, y, z) == <<PiQuarters(Radius * (Theta(y, x) - 4)), Rat(z)>>
TopPoint(x, y, z) == <<Rat(0 - y), Rat(x + (Height \div 2) + Radius)>>
BottomPoint(x, y, z) == <<Rat(0 - y), Rat(0 - x - (Height \div 2) - Radius)>>

\* the output at position p
Out(p) == <<Xproj[p[1]][p[2]], Yproj[p[1]][p[2]]>>
HitX(p) == Al.X[p[1]][p[2]]
HitY(p) == Al.Y[p[1]][p[2]]
HitZ(p) == Al.Z[p[1]][p[2]]

\* the implementation called on a batch of the given coordinates
Project(f, X0, Y0, Z0, exp) ==
  CASE f = "root" -> project2d_root(X0, Y0, Z0, exp)
    [] f = "ed" -> project2d_ed(X0, Y0, Z0, exp)
    [] f = "slow" -> project2d_slow(X0, Y0, Z0, exp)
    [] f = "py" -> project2d_py(X0, Y0, Z0, exp)

----------------------------------------------------------------------------
(* Properties *)

\* C1: in every project2d, a hit is written by the top-cap mapping iff
\* z > height/2 - top margin, else by the bottom-cap mapping iff
\* z < -height/2 + bottom margin, else by the barrel mapping, the height
\* being the configured detector height.
C1_ThresholdsFromGeometry ==
  (pc = "returned" /\ fn \in {"root", "ed", "py"}) =>
    \A p \in Idx : Standing(p) = RegionOf(HitZ(p), MarginsOf(fn, experiment))

\* C2: in every implementation, a hit classified as barrel gets
\* x2d = cylinder_radius * (theta - pi) with theta in [0, 2*pi), y2d = z.
C2_BarrelMappingAllVariants ==
  pc = "returned" =>
    \A p \in Idx : Standing(p) = "barrel" =>
      Out(p) = BarrelPoint(HitX(p), HitY(p), HitZ(p))

\* C3: a hit classified as top cap gets x2d = -y and
\* y2d = x + height/2 + cylinder_radius, height from the geometry.
C3_TopCapMapping ==
  pc = "returned" =>
    \A p \in Idx : Standing(p) = "topCap" =>
      Out(p) = TopPoint(HitX(p), HitY(p), HitZ(p))

\* C4: a hit classified as bottom cap gets x2d = -y and
\* y2d = -x - height/2 - cylinder_radius, height from the geometry.
C4_BottomCapMapping ==
  pc = "returned" =>
    \A p \in Idx : Standing(p) = "bottomCap" =>
      Out(p) = BottomPoint(HitX(p), HitY(p), HitZ(p))

\* C5: every hit is written by exactly one region mapping; no hit passes
\* both the top-cap and the bottom-cap test, and where the top-cap test
\* holds the top-cap mapping is the one that stands.
C5_RegionExclusive ==
  pc = "returned" =>
    \A p \in Idx :
      /\ Len(written[p[1]][p[2]]) = 1
      /\ written[p[1]][p[2]][1] = "topCap" => Standing(p) = "topCap"

\* C6: a hit with z exactly height/2 - top margin is classified as barrel
\* (only the barrel mapping writes it), in every implementation that takes
\* the cap boundary from the geometry.
C6_BoundaryIsBarrel ==
  (pc = "returned" /\ fn \in {"ed", "slow", "py"}) =>
    \A p \in Idx :
      HitZ(p) = (Height \div 2) - MarginsOf(fn, experiment).top =>
        written[p[1]][p[2]] = <<"barrel">>

\* C7: the 2D point of a hit does not depend on the other hits of the
\* batch: it is the point obtained by projecting that hit alone.
C7_IndependentOfOtherHits ==
  pc = "returned" =>
    \A p \in Idx :
      LET alone == Project(fn, <<<<X[p[1]][p[2]]>>>>, <<<<Y[p[1]][p[2]]>>>>,
                           <<<<Z[p[1]][p[2]]>>>>, experiment)
      IN Out(p) = <<alone.Xproj[1][1], alone.Yproj[1][1]>>

\* the outputs have the shape of the input and the entry at each position
\* is a region mapping of the hit at the same position
IndexAligned ==
  /\ DOMAIN Xproj = DOMAIN X /\ DOMAIN Yproj = DOMAIN X
  /\ \A e \in DOMAIN X : DOMAIN Xproj[e] = DOMAIN X[e] /\ DOMAIN Yproj[e] = DOMAIN X[e]
  /\ \A p \in Idx :
       /\ Len(written[p[1]][p[2]]) >= 1
       /\ \/ /\ Standing(p) = "barrel"
             /\ Out(p)[2] = Rat(HitZ(p))
             /\ Out(p)[1].r = 0
             /\ (Out(p)[1].q - Radius * (arctan2(HitY(p), HitX(p)) - 4))
                  \in {0, 8 * Radius}
          \/ /\ Standing(p) = "topCap"
             /\ Out(p)[1] = Rat(0 - HitY(p))
             /\ Out(p)[2].q = 0
             /\ Out(p)[2].r - HitX(p) - Radius >= HitZ(p)
          \/ /\ Standing(p) = "bottomCap"
             /\ Out(p)[1] = Rat(0 - HitY(p))
             /\ Out(p)[2].q = 0
             /\ Out(p)[2].r + HitX(p) + Radius <= HitZ(p)

\* every call that returns is index-aligned (supports C8: the only calls
\* that break it are those that raise)
ReturnedIsAligned == pc = "returned" => IndexAligned

\* C8: for every batch, the call returns outputs of the shape of the input,
\* entry i being the projection of hit i.
C8_LengthAndAlignment ==
  fn # "none" => (pc = "returned" /\ IndexAligned)

\* C9: projecting a batch without hits returns an empty result.
C9_EmptyBatchReturns ==
  (fn # "none" /\ Idx = {}) =>
    /\ pc = "returned"
    /\ DOMAIN Xproj = DOMAIN X /\ DOMAIN Yproj = DOMAIN X
    /\ \A e \in DOMAIN X : Xproj[e] = <<>> /\ Yproj[e] = <<>>

\* C10: scenario A: hits (1,0,0), (0,1,0), (-1,0,5) on the cylinder of
\* height 10 and radius 2: the first two are barrel with theta = 0 and
\* theta = pi/2, the third is top cap with x2d = 0 and y2d = 6.
C10_ScenarioA ==
  (/\ fn # "none"
   /\ experiment = "A"
   /\ X = << <<1000, 0, -1000>> >>
   /\ Y = << <<0, 1000, 0>> >>
   /\ Z = << <<0, 0, 5000>> >>) =>
    /\ pc = "returned"
    /\ written = << << <<"barrel">>, <<"barrel">>, <<"topCap">> >> >>
    /\ Xproj[1][1] = PiQuarters(2000 * (0 - 4))
    /\ Xproj[1][2] = PiQuarters(2000 * (2 - 4))
    /\ Yproj[1][1] = Rat(0) /\ Yproj[1][2] = Rat(0)
    /\ Xproj[1][3] = Rat(0) /\ Yproj[1][3] = Rat(6000)

----------------------------------------------------------------------------
(* Axis realignment *)

\* project2d of project_2d_from_root.py from line 47 on, applied to hits
\* that are taken as they are, with the radius and margins of exp
ProjectUnrotated(X0, Y0, Z0, exp) ==
  IF Flat(Z0) = {} THEN Raised
  ELSE MaskedWrites(X0, Y0, Z0, normalise(arctan2_arr(Y0, X0)),
                    DETECTOR_GEOM[exp].cylinder_radius,
                    np_max(Z0), np_min(Z0), eps_root(exp))

----------------------------------------------------------------------------
(* Invalid geometry *)

\* a caller holds a batch and a configuration whose radius or height is
\* not positive
BadGeomInit ==
  /\ experiment \in InvalidGeoms
  /\ \E b \in Batches(experiment) :
       /\ X = Coord(b, 1)
       /\ Y = Coord(b, 2)
       /\ Z = Coord(b, 3)
  /\ fn = "none"
  /\ pc = "call"
  /\ Xproj = <<>>
  /\ Yproj = <<>>
  /\ written = <<>>
  /\ NbIdle
  /\ ViewIdle
  /\ CallIdle

BadGeomSpec == BadGeomInit /\ [][ProjNext]_projVars

\* C12: with cylinder_radius <= 0 or height <= 0 the projection (here of a
\* batch with at least one hit) fails and returns no projected points.
C12_InvalidGeometryFails ==
  (fn # "none" /\ Idx # {} /\ (Radius <= 0 \/ Height <= 0)) =>
    (pc = "raised" /\ Xproj = <<>> /\ Yproj = <<>>)

----------------------------------------------------------------------------
(* Coordinate arrays of different lengths *)

\* largest length of a coordinate array of the event
MaxLen == 3

\* one event whose x, y and z arrays are drawn independently, at least one
\* of a length different from the others
ShapeInit ==
  /\ experiment = "A"
  /\ \E xs \in UNION {[1..n -> {0, 1000}] : n \in 0..MaxLen},
        ys \in UNION {[1..n -> {0, -1000}] : n \in 0..MaxLen},
        zs \in UNION {[1..n -> {0, 5000}] : n \in 0..MaxLen} :
       /\ ~(Len(xs) = Len(ys) /\ Len(ys) = Len(zs))
       /\ X = <<xs>>
       /\ Y = <<ys>>
       /\ Z = <<zs>>
  /\ fn = "none"
  /\ pc = "call"
  /\ Xproj = <<>>
  /\ Yproj = <<>>
  /\ written = <<>>
  /\ NbIdle
  /\ ViewIdle
  /\ CallIdle

ShapeSpec == ShapeInit /\ [][ProjNext]_projVars

\* C13: when the x, y and z sequences do not all have the same length the
\* projection fails and returns no result.
C13_MismatchedLengthsFail ==
  (fn # "none" /\ ~SameShape(X, Y, Z)) =>
    (pc = "raised" /\ Xproj = <<>> /\ Yproj = <<>>)

----------------------------------------------------------------------------
(* Neighbour precomputation: compute_distance_matrix and compute_knn_lookup *)
(* of src/geometries/scripts/compute_pmt_distances.py, run one after the    *)
(* other by main.                                                           *)
(*                                                                          *)
(* A distance is represented by its square, an integer: the square root is  *)
(* strictly increasing, so equalities and comparisons of distances are      *)
(* those of their squares.  max_distance is likewise given by its square.   *)
(* Rows and columns are numbered from 1; chunk bounds start_i and end_i     *)
(* keep the 0-based values of the code.                                     *)

\* largest number of sensors of a table
MaxSensors == 3
\* largest chunk size
MaxChunk == 4

\* sensor positions: three corners of a unit square
SensorPositions == {<<0, 0, 0>>, <<1, 0, 0>>, <<0, 1, 0>>}

\* the argument max_distance of compute_knn_lookup: <<>> for None, <<m>> for
\* a given maximal distance (squares of 1 and of the diagonal)
MaxDistances == {<<>>, <<1>>, <<2>>}

\* permutations of the set S, as sequences
Perms(S) ==
  {p \in [1..Cardinality(S) -> S] : \A a, b \in 1..Cardinality(S) : p[a] = p[b] => a = b}

\* the sensor tables: unique tube ids in any row order, any positions
SensorTables ==
  UNION {
    {[r \in 1..n |-> [tube_id |-> ids[r], x |-> ps[r][1], y |-> ps[r][2], z |-> ps[r][3]]]
       : ids \in Perms({10 + k : k \in 1..n}), ps \in [1..n -> SensorPositions]}
    : n \in 0..MaxSensors }

\* pmt_df[['x', 'y', 'z']].values and pmt_df['tube_id'].values
PositionsOf(df) == [r \in DOMAIN df |-> <<df[r].x, df[r].y, df[r].z>>]
TubeIdsOf(df) == [r \in DOMAIN df |-> df[r].tube_id]

Min2(a, b) == IF a <= b THEN a ELSE b

\* Euclidean distance between two positions (squared)
Euclidean(a, b) ==
  (a[1] - b[1]) * (a[1] - b[1]) + (a[2] - b[2]) * (a[2] - b[2])
    + (a[3] - b[3]) * (a[3] - b[3])

\* scipy cdist(A, B, metric='euclidean')
cdist(A, B) == [a \in DOMAIN A |-> [b \in DOMAIN B |-> Euclidean(A[a], B[b])]]

\* np.zeros((n, m))
np_zeros(n, m) == [r \in 1..n |-> [c \in 1..m |-> 0]]

\* n_chunks = (n_pmts + chunk_size - 1) // chunk_size
n_chunks_slack(n_pmts, cs) == n_pmts \div cs
n_chunks(n_pmts, cs) == (n_pmts + cs - 1) \div cs

\* start_i and end_i of chunk i
start_i_back(i, cs) == IF i = 0 THEN 0 ELSE i * cs - 1
start_i(i, cs) == i * cs
end_i_overlap(i, cs, n_pmts) == Min2((i + 1) * cs + 1, n_pmts)
end_i(i, cs, n_pmts) == Min2((i + 1) * cs, n_pmts)

\* the body of the chunk loop: rows start_i..end_i-1 of the matrix are
\* assigned the distances of the chunk's positions to all positions
ChunkWrite(matrix, positions, i, cs) ==
  LET n == Len(positions)
      s == start_i(i, cs)
      e == end_i(i, cs, n)
      chunk_positions == SubSeq(positions, s + 1, e)
      distances == cdist(chunk_positions, positions)
  IN [r \in DOMAIN matrix |->
        IF s + 1 <= r /\ r <= e THEN distances[r - s] ELSE matrix[r]]

\* the number of assignments each row has received after chunk i
ChunkCount(counts, i, cs) ==
  LET s == start_i(i, cs)
      e == end_i(i, cs, Len(counts))
  IN [r \in DOMAIN counts |-> IF s + 1 <= r /\ r <= e THEN counts[r] + 1 ELSE counts[r]]

\* the chunk loop from chunk i on (lines 54-66)
RECURSIVE chunk_loop(_, _, _, _)
chunk_loop(matrix, positions, i, cs) ==
  IF i >= n_chunks(Len(positions), cs) THEN matrix
  ELSE chunk_loop(ChunkWrite(matrix, positions, i, cs), positions, i + 1, cs)

\* compute_distance_matrix(pmt_df, chunk_size) as a function of its arguments
compute_distance_matrix(df, cs) ==
  chunk_loop(np_zeros(Len(df), Len(df)), PositionsOf(df), 0, cs)

\* main has loaded the table and calls compute_distance_matrix, which has
\* allocated the matrix (lines 40-54)
NbInit ==
  /\ ProjIdle
  /\ ViewIdle
  /\ CallIdle
  /\ pmt_df \in SensorTables
  /\ chunk_size \in 1..MaxChunk
  /\ max_distance \in MaxDistances
  /\ dpc = "dist"
  /\ ci = 0
  /\ chunks_done = {}
  /\ worker_rows = {}
  /\ distance_matrix = np_zeros(Len(pmt_df), Len(pmt_df))
  /\ row_writes = [r \in 1..Len(pmt_df) |-> 0]
  /\ ki = 0
  /\ knn_lookup = <<>>

\* one iteration of the chunk loop (lines 56-66)
DistChunk ==
  /\ dpc = "dist"
  /\ ci < n_chunks(Len(pmt_df), chunk_size)
  /\ distance_matrix' = ChunkWrite(distance_matrix, PositionsOf(pmt_df), ci, chunk_size)
  /\ row_writes' = ChunkCount(row_writes, ci, chunk_size)
  /\ chunks_done' = chunks_done \cup {ci}
  /\ ci' = ci + 1
  /\ UNCHANGED <<pmt_df, chunk_size, max_distance, dpc, worker_rows, ki, knn_lookup>>
  /\ UNCHANGED projVars
  /\ UNCHANGED viewVars
  /\ UNCHANGED callVars

\* the loop is exhausted: compute_distance_matrix returns (line 68)
DistReturn ==
  /\ dpc = "dist"
  /\ ci >= n_chunks(Len(pmt_df), chunk_size)
  /\ dpc' = "dist_done"
  /\ UNCHANGED <<pmt_df, chunk_size, max_distance, ci, chunks_done, worker_rows,
                 distance_matrix, row_writes, ki, knn_lookup>>
  /\ UNCHANGED projVars
  /\ UNCHANGED viewVars
  /\ UNCHANGED callVars

\* the rows [start_i, end_i) of chunk i, numbered from 1
RowsOf(i, cs, n_pmts) == (start_i(i, cs) + 1)..end_i(i, cs, n_pmts)

\* The chunks handed to independent workers that run in any order and
\* interleave: a worker assigns one more row of the slice
\* distance_matrix[start_i:end_i] of its chunk i (lines 56-66); the row is
\* computed from the positions alone.
WorkerWriteRow ==
  /\ dpc = "dist"
  /\ \E i \in 0..(n_chunks(Len(pmt_df), chunk_size) - 1) :
       \E r \in RowsOf(i, chunk_size, Len(pmt_df)) :
         LET positions == PositionsOf(pmt_df)
             s == start_i(i, chunk_size)
             e == end_i(i, chunk_size, Len(pmt_df))
             distances == cdist(SubSeq(positions, s + 1, e), positions)
             rows == worker_rows \cup {<<i, r>>}
         IN /\ <<i, r>> \notin worker_rows
            /\ distance_matrix' = [distance_matrix EXCEPT ![r] = distances[r - s]]
            /\ row_writes' = [row_writes EXCEPT ![r] = @ + 1]
            /\ worker_rows' = rows
            /\ chunks_done' =
                 {k \in 0..(n_chunks(Len(pmt_df), chunk_size) - 1) :
                    \A q \in RowsOf(k, chunk_size, Len(pmt_df)) : <<k, q>> \in rows}
  /\ UNCHANGED <<pmt_df, chunk_size, max_distance, dpc, ci, ki, knn_lookup>>
  /\ UNCHANGED projVars
  /\ UNCHANGED viewVars
  /\ UNCHANGED callVars

\* every worker has finished its chunk: the matrix is returned (line 68)
WorkersJoin ==
  /\ dpc = "dist"
  /\ chunks_done = 0..(n_chunks(Len(pmt_df), chunk_size) - 1)
  /\ dpc' = "dist_done"
  /\ UNCHANGED <<pmt_df, chunk_size, max_distance, ci, chunks_done, worker_rows,
                 distance_matrix, row_writes, ki, knn_lookup>>
  /\ UNCHANGED projVars
  /\ UNCHANGED viewVars
  /\ UNCHANGED callVars

WorkerNext == WorkerWriteRow \/ WorkersJoin

WorkerSpec == NbInit /\ [][WorkerNext]_nbVars

\* np.argsort(distances) with the argument negated: farthest first
argsort_descending(d) ==
  {p \in Perms(DOMAIN d) : \A k \in 1..(Len(d) - 1) : d[p[k]] >= d[p[k + 1]]}

\* The results np.argsort(distances) can give: the default sort is not
\* stable, so equal distances may come in any order.
argsort(d) ==
  {p \in Perms(DOMAIN d) : \A k \in 1..(Len(d) - 1) : d[p[k]] <= d[p[k + 1]]}

\* nearest_indices[distances[nearest_indices] < max_distance]
KeepBelow(indices, distances, maxd) ==
  LET Below(j) == distances[j] < maxd
  IN SelectSeq(indices, Below)

\* nearest_indices of one row (lines 110-114)
NearestIndices(sorted_indices, distances, maxd) ==
  IF maxd # <<>> THEN KeepBelow(Tail(sorted_indices), distances, maxd[1])
  ELSE Tail(sorted_indices)

\* The assignment of line 117 raises: tube_ids[nearest_indices] is indexed
\* beyond the tube ids (IndexError), or the ids do not fit the first
\* len(nearest_indices) columns of the row (ValueError).
RowAssignRaises(sorted_indices, distances, tube_ids, maxd) ==
  LET nearest_indices == NearestIndices(sorted_indices, distances, maxd)
  IN \/ \E k \in 1..Len(nearest_indices) : nearest_indices[k] > Len(tube_ids)
     \/ Len(nearest_indices) > Len(tube_ids) - 1

\* row i with the padding written in front of the tube ids
KnnRowOf_padFirst(sorted_indices, distances, tube_ids, maxd) ==
  LET skipped == Tail(sorted_indices)
      nearest_indices == IF maxd # <<>> THEN KeepBelow(skipped, distances, maxd[1])
                         ELSE skipped
      pad == (Len(tube_ids) - 1) - Len(nearest_indices)
  IN [k \in 1..(Len(tube_ids) - 1) |->
        IF k > pad THEN tube_ids[nearest_indices[k - pad]] ELSE -1]

\* row i of knn_lookup for one result of the sort (lines 110-118)
KnnRowOf(sorted_indices, distances, tube_ids, maxd) ==
  LET skipped == Tail(sorted_indices)
      nearest_indices == IF maxd # <<>> THEN KeepBelow(skipped, distances, maxd[1])
                         ELSE skipped
  IN [k \in 1..(Len(tube_ids) - 1) |->
        IF k <= Len(nearest_indices) THEN tube_ids[nearest_indices[k]] ELSE -1]

\* compute_knn_lookup is called with the returned matrix and the tube ids, as
\* main does at line 236 (the statistics main prints in between are not
\* modelled: they stop main for a table without two sensors at different
\* places, which compute_knn_lookup itself accepts); the table is allocated with
\* n_pmts - 1 columns (line 100); np.zeros raises for the negative width of
\* an empty table
KnnStart ==
  /\ dpc = "dist_done"
  /\ IF Len(pmt_df) = 0
       THEN /\ dpc' = "raised"
            /\ knn_lookup' = <<>>
       ELSE /\ dpc' = "knn"
            /\ knn_lookup' = np_zeros(Len(pmt_df), Len(pmt_df) - 1)
  /\ ki' = 0
  /\ UNCHANGED <<pmt_df, chunk_size, max_distance, ci, chunks_done, worker_rows,
                 distance_matrix, row_writes>>
  /\ UNCHANGED projVars
  /\ UNCHANGED viewVars
  /\ UNCHANGED callVars

\* one iteration of the row loop (lines 102-118)
KnnRow ==
  /\ dpc = "knn"
  /\ ki < Len(pmt_df)
  /\ IF ki + 1 > Len(distance_matrix)
       THEN \* distance_matrix[i, :] is out of bounds: IndexError
            /\ dpc' = "raised"
            /\ knn_lookup' = <<>>
       ELSE \E sorted_indices \in argsort(distance_matrix[ki + 1]) :
              IF RowAssignRaises(sorted_indices, distance_matrix[ki + 1],
                                 TubeIdsOf(pmt_df), max_distance)
                THEN /\ dpc' = "raised"
                     /\ knn_lookup' = <<>>
                ELSE /\ dpc' = dpc
                     /\ knn_lookup' = [knn_lookup EXCEPT ![ki + 1] =
                          KnnRowOf(sorted_indices, distance_matrix[ki + 1],
                                   TubeIdsOf(pmt_df), max_distance)]
  /\ ki' = ki + 1
  /\ UNCHANGED <<pmt_df, chunk_size, max_distance, ci, chunks_done, worker_rows,
                 distance_matrix, row_writes>>
  /\ UNCHANGED projVars
  /\ UNCHANGED viewVars
  /\ UNCHANGED callVars

\* the row loop is exhausted: compute_knn_lookup returns (line 123)
KnnReturn ==
  /\ dpc = "knn"
  /\ ki >= Len(pmt_df)
  /\ dpc' = "done"
  /\ UNCHANGED <<pmt_df, chunk_size, max_distance, ci, chunks_done, worker_rows,
                 distance_matrix, row_writes, ki, knn_lookup>>
  /\ UNCHANGED projVars
  /\ UNCHANGED viewVars
  /\ UNCHANGED callVars

NbNext == DistChunk \/ DistReturn \/ KnnStart \/ KnnRow \/ KnnReturn

NbSpec == NbInit /\ [][NbNext]_nbVars

\* compute_knn_lookup called with any square distance matrix and any tube
\* ids, of the same length or not: the matrix is that of some sensor table,
\* the tube ids are the column of pmt_df (its positions are not passed)
KnnArgInit ==
  /\ ProjIdle
  /\ ViewIdle
  /\ CallIdle
  /\ pmt_df \in {t \in SensorTables : \A r \in DOMAIN t : PositionsOf(t)[r] = <<0, 0, 0>>}
  /\ chunk_size = 1
  /\ max_distance \in MaxDistances
  /\ dpc = "dist_done"
  /\ ci = 0
  /\ chunks_done = {}
  /\ worker_rows = {}
  /\ distance_matrix \in {compute_distance_matrix(t, 1) : t \in SensorTables}
  /\ row_writes = <<>>
  /\ ki = 0
  /\ knn_lookup = <<>>

KnnNext == KnnStart \/ KnnRow \/ KnnReturn

KnnArgSpec == KnnArgInit /\ [][KnnNext]_nbVars

NbTypeOK ==
  /\ dpc \in {"dist", "dist_done", "knn", "done", "raised"}
  /\ Len(distance_matrix) = Len(pmt_df)
  /\ ci \in 0..MaxSensors /\ ki \in 0..MaxSensors

----------------------------------------------------------------------------
(* compute_distance_matrix on its own *)

DistNext == DistChunk \/ DistReturn

DistSpec == NbInit /\ [][DistNext]_nbVars

\* the number of sensors of the table
N == Len(pmt_df)

\* compute_distance_matrix has returned its matrix
DistReturned == dpc = "dist_done"

\* C14: for every sensor table, the matrix returned by
\* compute_distance_matrix has N rows of N entries, entry (i, j) is the
\* Euclidean distance between sensors i and j, the matrix is symmetric and
\* its diagonal is zero.
C14_DistanceMatrix ==
  DistReturned =>
    /\ Len(distance_matrix) = N
    /\ \A i \in 1..N : Len(distance_matrix[i]) = N
    /\ \A i, j \in 1..N :
         /\ distance_matrix[i][j] = Euclidean(PositionsOf(pmt_df)[i], PositionsOf(pmt_df)[j])
         /\ distance_matrix[i][j] = distance_matrix[j][i]
    /\ \A i \in 1..N : distance_matrix[i][i] = 0

\* a matrix of three sensors at three different places has been returned,
\* computed in two chunks the second of which is short
C14_Witness ==
  /\ DistReturned
  /\ N = 3
  /\ chunk_size = 2
  /\ \A i, j \in 1..N : i # j => distance_matrix[i][j] > 0

\* the chunk size that computes the whole table in one chunk
SingleChunk == IF N = 0 THEN 1 ELSE N

\* C15: chunk_size has no effect on the result: for every sensor table and
\* every chunk_size >= 1 the returned matrix is the one computed in a single
\* chunk, and every row has been computed exactly once.
C15_ChunkSizeHasNoEffect ==
  DistReturned =>
    /\ distance_matrix = compute_distance_matrix(pmt_df, SingleChunk)
    /\ \A r \in 1..N : row_writes[r] = 1

\* a table of three sensors, not all at one place, has been computed with a
\* chunk size smaller than N that does not divide it: two chunks have run
C15_Witness ==
  /\ DistReturned /\ N = 3 /\ chunk_size = 2 /\ ci = 2
  /\ \E i, j \in 1..N : distance_matrix[i][j] > 0
  /\ chunk_size # SingleChunk

\* the chunks of the table
Chunks == 0..(n_chunks(N, chunk_size) - 1)

\* some worker has assigned row r
Assigned(r) == \E i \in Chunks : <<i, r>> \in worker_rows

\* C16: the chunks write pairwise disjoint row ranges whose union is all the
\* rows, and a row a chunk writes does not depend on the rows other chunks
\* have written: in whatever order and interleaving the workers run, every
\* row assigned so far holds the value the sequential loop gives it, every
\* other row is untouched, and the matrix returned is that of the
\* sequential loop.
C16_ChunksIndependent ==
  LET sequential == compute_distance_matrix(pmt_df, chunk_size)
  IN /\ \A i, k \in Chunks :
          i # k => RowsOf(i, chunk_size, N) \cap RowsOf(k, chunk_size, N) = {}
     /\ UNION {RowsOf(i, chunk_size, N) : i \in Chunks} = 1..N
     /\ \A r \in 1..N :
          IF Assigned(r)
            THEN distance_matrix[r] = sequential[r] /\ row_writes[r] = 1
            ELSE distance_matrix[r] = np_zeros(N, N)[r] /\ row_writes[r] = 0
     /\ DistReturned => distance_matrix = sequential

\* two workers interleave out of order: the second chunk has written its row
\* and the first chunk its second row, before the first row is written
C16_Witness ==
  /\ dpc = "dist"
  /\ N = 3 /\ chunk_size = 2
  /\ worker_rows = {<<1, 3>>, <<0, 2>>}
  /\ \A j \in 1..N : j # 3 => distance_matrix[3][j] > 0
  /\ distance_matrix[1] = <<0, 0, 0>>

----------------------------------------------------------------------------
(* compute_knn_lookup *)

\* compute_knn_lookup has returned its table
KnnReturned == dpc = "done"

\* the entries of row i that are not the padding -1, left to right
Entries(i) ==
  LET Real(t) == t # -1
  IN SelectSeq(knn_lookup[i], Real)

\* the row index of tube id t
RowOfTube(t) == CHOOSE j \in 1..N : TubeIdsOf(pmt_df)[j] = t

\* C17: for every sensor table with unique tube ids, sensor positions not
\* necessarily distinct, and every sensor i, tube_ids[i] does not appear in
\* row i of the table compute_knn_lookup returns.
C17_SelfExcluded ==
  KnnReturned =>
    \A i \in 1..N : \A k \in 1..Len(knn_lookup[i]) :
      knn_lookup[i][k] # TubeIdsOf(pmt_df)[i]

\* the rows of the neighbour table written so far
RowsWritten == IF dpc \in {"knn", "done"} THEN 1..(IF KnnReturned THEN N ELSE ki) ELSE {}

\* the distance from sensor i to the sensor of tube id t
DistanceTo(i, t) == distance_matrix[i][RowOfTube(t)]

\* C18: in every row i of the neighbour table the entries that are not
\* padding are ordered nearest first: the distances from sensor i to the
\* listed sensors, read left to right, never decrease.
C18_NearestFirst ==
  \A i \in RowsWritten :
    \A k \in 1..(Len(Entries(i)) - 1) :
      DistanceTo(i, Entries(i)[k]) <= DistanceTo(i, Entries(i)[k + 1])

\* a returned table has a row listing two sensors at different distances
C18_Witness ==
  /\ KnnReturned
  /\ \E i \in 1..N :
       /\ Len(Entries(i)) = 2
       /\ DistanceTo(i, Entries(i)[1]) < DistanceTo(i, Entries(i)[2])

\* C19: in every row i of the neighbour table, neighbours at the same
\* distance from sensor i are listed in ascending order of tube id.
C19_TiesByTubeId ==
  KnnReturned =>
    \A i \in 1..N :
      \A k \in 1..(Len(Entries(i)) - 1) :
        DistanceTo(i, Entries(i)[k]) = DistanceTo(i, Entries(i)[k + 1])
          => Entries(i)[k] < Entries(i)[k + 1]

\* the tube ids the claim gives row i: the sensors j # i at a distance
\* below max_distance, every other sensor when max_distance is not given
Expected(i) ==
  {TubeIdsOf(pmt_df)[j] :
     j \in {j \in 1..N : /\ j # i
                         /\ (max_distance # <<>> =>
                               distance_matrix[i][j] < max_distance[1])}}

\* C20: for every sensor i the entries of row i that are not padding are
\* exactly the tube ids of the sensors j # i with distances[i][j] <
\* max_distance, each once; without max_distance, every other sensor once.
C20_ExactlyTheNeighboursInRange ==
  KnnReturned =>
    \A i \in 1..N :
      /\ {Entries(i)[k] : k \in 1..Len(Entries(i))} = Expected(i)
      /\ Len(Entries(i)) = Cardinality(Expected(i))

\* no two sensors of the table are at the same place
DistinctPlaces ==
  \A a, b \in 1..N : a # b => PositionsOf(pmt_df)[a] # PositionsOf(pmt_df)[b]

\* Supporting lemma: when no two sensors share a place, the first sorted
\* index is the sensor itself, and rows exclude the sensor and hold exactly
\* the neighbours in range.
DistinctPlacesRowsExact ==
  DistinctPlaces => (C17_SelfExcluded /\ C20_ExactlyTheNeighboursInRange)

\* C21: every row of the neighbour table has the width N-1 and is padded on
\* the right with -1: the neighbour ids come first and every position after
\* a -1 holds -1.
C21_RightPadded ==
  \A i \in RowsWritten :
    /\ Len(knn_lookup[i]) = N - 1
    /\ \A k \in 1..(N - 1) :
         knn_lookup[i][k] = -1 => \A m \in k..(N - 1) : knn_lookup[i][m] = -1

\* a returned table of three sensors has a row with one neighbour in range
\* followed by padding, and a row filled with two neighbours
C21_Witness ==
  /\ KnnReturned
  /\ N = 3
  /\ \E i \in 1..N : knn_lookup[i][1] # -1 /\ knn_lookup[i][2] = -1
  /\ \E i \in 1..N : knn_lookup[i][1] # -1 /\ knn_lookup[i][2] # -1

\* C22: for an empty sensor table, building the distance matrix fails: no
\* distance matrix is returned and no neighbour table is begun.
C22_EmptyTableFails ==
  N = 0 => (~DistReturned /\ dpc \notin {"knn", "done"})

\* C23: compute_knn_lookup returns no table when the number of tube ids
\* differs from the number of rows of the distance matrix.
C23_LengthMismatchFails ==
  KnnReturned => Len(TubeIdsOf(pmt_df)) = Len(distance_matrix)

----------------------------------------------------------------------------
(* Event selection and loading: events_index_bounds and its callers, in the *)
(* three copies of the repository:                                          *)
(*   "root"  src/src/utils/root/load_data_from_root.py                      *)
(*   "ed"    src/event_display.py (load_data)                               *)
(*   "py"    src/python/event_display.py (load_data)                        *)

\* largest number of events in the file
MaxFileEvents == 3
\* largest length of a list given as events_to_display
MaxListLen == 3

\* the integers that occur in events_to_display: in range and out of range
\* on both sides
IndexRange == -1..MaxFileEvents

\* The values of events_to_display: 'all', an int, a tuple (start, stop), a
\* list of ints, or a value of another type.
EventsToDisplay ==
  {[kind |-> "all", v |-> <<>>], [kind |-> "other", v |-> <<>>]}
    \cup {[kind |-> "int", v |-> <<i>>] : i \in IndexRange}
    \cup {[kind |-> "tuple", v |-> <<a, b>>] : a, b \in IndexRange}
    \cup {[kind |-> "list", v |-> s] :
            s \in UNION {[1..len -> IndexRange] : len \in 0..MaxListLen}}

Max2(a, b) == IF a >= b THEN a ELSE b

\* the list [i for i in range(a, b)]
range(a, b) == [k \in 1..Max2(b - a, 0) |-> a + k - 1]

\* sorted(s)
RECURSIVE sorted(_)
sorted(s) ==
  IF s = <<>> THEN <<>>
  ELSE LET m == CHOOSE k \in DOMAIN s : \A j \in DOMAIN s : s[k] <= s[j]
           rest == [j \in 1..(Len(s) - 1) |-> IF j < m THEN s[j] ELSE s[j + 1]]
       IN <<s[m]>> \o sorted(rest)

\* the fallback (0, 1) of load_data_from_root.py
first_event_bounds == [is_contiguous |-> TRUE, bounds |-> <<0, 1>>]

\* events_index_bounds of src/src/utils/root/load_data_from_root.py
events_index_bounds_root(e, n) ==
  IF e.kind = "all" THEN [is_contiguous |-> TRUE, bounds |-> range(0, n)]
  ELSE IF e.kind = "int" THEN
    IF e.v[1] < 0 \/ e.v[1] >= n THEN first_event_bounds
    ELSE [is_contiguous |-> TRUE, bounds |-> <<e.v[1], e.v[1]>>]
  ELSE IF e.kind = "tuple" THEN
    LET start == e.v[1]
        stop == e.v[2]
    IN IF start < 0 \/ stop > n \/ start > stop THEN first_event_bounds
       ELSE [is_contiguous |-> TRUE, bounds |-> <<start, stop>>]
  ELSE IF e.kind = "list" THEN
    LET indices == sorted(e.v)
    IN IF indices = <<>> THEN first_event_bounds
       ELSE IF indices[1] < 0 \/ indices[Len(indices)] >= n THEN first_event_bounds
       ELSE IF indices[Len(indices)] - indices[1] = Len(indices) - 1
         THEN [is_contiguous |-> TRUE, bounds |-> indices]
         ELSE [is_contiguous |-> FALSE, bounds |-> indices]
  ELSE first_event_bounds

\* events_index_bounds of src/event_display.py: (event_start, event_end); the
\* fallback of an invalid tuple or int is overwritten by the assignments
\* that follow the test
events_index_bounds_ed(e, n) ==
  IF e.kind = "all" THEN <<0, n>>
  ELSE IF e.kind = "tuple" THEN <<e.v[1], e.v[2]>>
  ELSE IF e.kind = "int" THEN <<e.v[1], e.v[1] + 1>>
  ELSE <<0, 1>>

\* events_index_bounds of src/python/event_display.py: the event indices
events_index_bounds_py(e, n) ==
  IF e.kind = "all" THEN range(0, n)
  ELSE IF e.kind = "tuple" THEN
    IF e.v[1] < 0 \/ e.v[2] > n \/ e.v[1] > e.v[2] THEN <<0>>
    ELSE range(e.v[1], e.v[2])
  ELSE IF e.kind = "list" THEN e.v
  ELSE IF e.kind = "int" THEN
    IF e.v[1] < 0 \/ e.v[1] >= n THEN <<0>> ELSE <<e.v[1]>>
  ELSE <<0>>

\* tree.arrays(entry_start=a, entry_stop=b) of a tree of n entries: the
\* entries a..b-1, the bounds being clamped to the tree
tree_arrays(n, entry_start, entry_stop) ==
  range(Max2(entry_start, 0), Min2(entry_stop, n))

\* array[a:b] of an array of n events: a Python slice, a negative bound
\* counting from the end
py_slice(n, a, b) ==
  LET Norm(k) == IF k < 0 THEN Max2(k + n, 0) ELSE Min2(k, n)
  IN range(Norm(a), Norm(b))

\* the fetch of load_data_from_root (lines 87-99)
fetch_root(n, contiguous, bnds) ==
  IF contiguous
    THEN tree_arrays(n, bnds[1], bnds[Len(bnds)] + 1)
    ELSE [k \in DOMAIN bnds |-> tree_arrays(n, bnds[k], bnds[k] + 1)[1]]

\* array[event_indices] of an array of n events: an index out of the array
\* raises, a negative index in range counts from the end
FancyRaises(n, indices) == \E k \in DOMAIN indices : indices[k] >= n \/ indices[k] < -n
fancy(n, indices) ==
  [k \in DOMAIN indices |-> IF indices[k] < 0 THEN indices[k] + n ELSE indices[k]]

\* the loader is called on a file of n_events events
ViewInit ==
  /\ ProjIdle
  /\ NbIdle
  /\ CallIdle
  /\ events_to_display \in EventsToDisplay
  /\ n_events \in 1..MaxFileEvents
  /\ impl \in {"root", "ed", "py"}
  /\ vpc = "called"
  /\ is_contiguous = TRUE
  /\ bounds = <<>>
  /\ all_data = <<>>
  /\ event_indices = <<>>
  /\ wE = 0
  /\ wB = <<>>
  /\ shown = -1
  /\ last = "none"
  /\ outcome = "none"

\* events_index_bounds returns to the loader
Select ==
  /\ vpc = "called"
  /\ vpc' = "selected"
  /\ IF impl = "root"
       THEN LET res == events_index_bounds_root(events_to_display, n_events)
            IN is_contiguous' = res.is_contiguous /\ bounds' = res.bounds
       ELSE /\ is_contiguous' = is_contiguous
            /\ bounds' = IF impl = "ed"
                           THEN events_index_bounds_ed(events_to_display, n_events)
                           ELSE events_index_bounds_py(events_to_display, n_events)
  /\ UNCHANGED <<events_to_display, n_events, impl, all_data, event_indices,
                 wE, wB, shown, last, outcome>>
  /\ UNCHANGED <<projVars, nbVars, callVars>>

\* the loader fetches the selected events and returns, or raises
Load ==
  /\ vpc = "selected"
  /\ IF impl = "root"
       THEN /\ vpc' = "loaded"
            /\ all_data' = fetch_root(n_events, is_contiguous, bounds)
       ELSE IF impl = "ed"
       THEN /\ vpc' = "loaded"
            /\ all_data' = py_slice(n_events, bounds[1], bounds[2])
       ELSE \* an empty Python list as index is either rejected or selects
            \* no event, depending on the awkward version
            \/ /\ FancyRaises(n_events, bounds) \/ bounds = <<>>
               /\ vpc' = "raised" /\ all_data' = <<>>
            \/ /\ ~FancyRaises(n_events, bounds)
               /\ vpc' = "loaded" /\ all_data' = fancy(n_events, bounds)
  /\ UNCHANGED <<events_to_display, n_events, impl, is_contiguous, bounds,
                 event_indices, wE, wB, shown, last, outcome>>
  /\ UNCHANGED <<projVars, nbVars, callVars>>

LoadNext == Select \/ Load

LoadSpec == ViewInit /\ [][LoadNext]_viewVars

\* events_to_display is invalid for a file of n events
Invalid(e, n) ==
  \/ e.kind = "int" /\ (e.v[1] < 0 \/ e.v[1] >= n)
  \/ e.kind = "tuple" /\ (e.v[1] < 0 \/ e.v[2] > n \/ e.v[1] > e.v[2])
  \/ e.kind = "list" /\ (e.v = <<>> \/ \E k \in DOMAIN e.v : e.v[k] < 0 \/ e.v[k] >= n)
  \/ e.kind = "other"

\* the loader has ended, by returning or by raising
LoaderEnded == vpc \in {"loaded", "raised", "display"}

\* C24: when events_to_display is invalid the selection falls back to the
\* first event: the loader returns, and event 0 and only event 0 is loaded.
C24_InvalidFallsBackToFirst ==
  (Invalid(events_to_display, n_events) /\ LoaderEnded) =>
    (vpc # "raised" /\ all_data = <<0>>)

\* the elements of a sequence
Elems(s) == {s[k] : k \in DOMAIN s}

\* the sequence is made of consecutive integers
Consecutive(s) == \A k \in 1..(Len(s) - 1) : s[k + 1] = s[k] + 1

\* load_data_from_root has returned for a list of indices all in range
ListLoaded ==
  /\ impl = "root"
  /\ vpc = "loaded"
  /\ events_to_display.kind = "list"
  /\ ~Invalid(events_to_display, n_events)

\* C25: for every in-range list of event indices, load_data_from_root loads
\* exactly the events at the listed indices, in ascending order; the list is
\* fetched as one block only if its sorted indices are consecutive integers.
C25_ListLoadsListedEvents ==
  ListLoaded =>
    /\ Elems(all_data) = Elems(events_to_display.v)
    /\ \A k \in 1..(Len(all_data) - 1) : all_data[k] <= all_data[k + 1]
    /\ is_contiguous => Consecutive(sorted(events_to_display.v))

----------------------------------------------------------------------------
(* Event augmentation: rotate_z_axis and flip_vertical of                   *)
(* src/src/event_augmentation.py.                                           *)
(*                                                                          *)
(* Memory is a record of two sequences: dicts, each dictionary a function   *)
(* from its keys to array identities, and arrays, the value of each array.  *)
(* An identity is an index in its sequence.  An array value is a record     *)
(* [ndim, v] with v a sequence of rows: the one row of its numbers when     *)
(* ndim = 1, its rows when ndim = 2.  Angles are whole quarter turns, so    *)
(* that cos and sin are exact.                                              *)

\* largest number of keys of no concern to the transformations
MaxOtherKeys == 1

VectorKeys == {"vertex", "particleStop", "particleDir"}
OtherKeys == {"charge", "time"}

\* values of the hit arrays and of the vector keys (one vector, or one row
\* per event)
HitArrays == {[ndim |-> 1, v |-> <<<<1, -2>>>>], [ndim |-> 1, v |-> <<<<>>>>]}
VectorArrays ==
  {[ndim |-> 1, v |-> <<<<1, 2, 3>>>>], [ndim |-> 2, v |-> <<<<1, 2, 3>>, <<0, -1, 4>>>>]}

\* the event dictionaries: any keys present, any of the values above
EventDicts ==
  UNION {
    {[k \in ks |-> IF k \in VectorKeys THEN vec[k] ELSE hit[k]] :
       vec \in [VectorKeys -> VectorArrays],
       hit \in [{"hitx", "hity", "hitz"} \cup OtherKeys -> HitArrays]}
    : ks \in {s \in SUBSET ({"hitx", "hity", "hitz"} \cup VectorKeys \cup OtherKeys) :
                Cardinality(s \cap OtherKeys) <= MaxOtherKeys} }

\* the memory holding the dictionary d alone, every value in an array of its
\* own: the dictionary has identity 1
MemoryOf(d) ==
  LET Present(k) == k \in DOMAIN d
      keys == SelectSeq(<<"hitx", "hity", "hitz", "vertex", "particleStop",
                          "particleDir", "charge", "time">>, Present)
  IN [dicts |-> <<[k \in DOMAIN d |-> CHOOSE a \in DOMAIN keys : keys[a] = k]>>,
      arrays |-> [a \in DOMAIN keys |-> d[keys[a]]]]

\* rotated_data = data, without a copy
dict_alias(h, d) == [heap |-> h, ref |-> d]

\* data.copy(): a new dictionary with the same keys and the same arrays
dict_copy(h, d) ==
  [heap |-> [h EXCEPT !.dicts = Append(h.dicts, h.dicts[d])],
   ref |-> Len(h.dicts) + 1]

\* rotated_data[key] = value, value being a new array
setitem(h, d, key, value) ==
  LET a == Len(h.arrays) + 1
  IN [dicts |-> [h.dicts EXCEPT ![d] =
                   [k \in DOMAIN h.dicts[d] \cup {key} |->
                      IF k = key THEN a ELSE h.dicts[d][k]]],
      arrays |-> Append(h.arrays, value)]

\* data[key]
getitem(h, d, key) == h.arrays[h.dicts[d][key]]

\* rotate_point_z(x, y, angle) for arrays of equal length
rotate_point_z(x, y, angle) ==
  [x_rot |-> [k \in DOMAIN x |-> x[k] * cosq(angle) - y[k] * sinq(angle)],
   y_rot |-> [k \in DOMAIN x |-> x[k] * sinq(angle) + y[k] * cosq(angle)]]

\* the block repeated for 'vertex', 'particleStop' and 'particleDir'
\* (lines 79-108)
rotate_vector(h, data, rotated_data, key, angle) ==
  IF key \notin DOMAIN h.dicts[data] THEN h
  ELSE LET vertex == getitem(h, data, key)
       IN IF vertex.ndim = 1 /\ Len(vertex.v[1]) >= 2
            THEN LET r == rotate_point_z(<<vertex.v[1][1]>>, <<vertex.v[1][2]>>, angle)
                 IN setitem(h, rotated_data, key,
                            [ndim |-> 1, v |-> <<<<r.x_rot[1], r.y_rot[1], vertex.v[1][3]>>>>])
          ELSE IF vertex.ndim = 2 /\ Len(vertex.v[1]) >= 2
            THEN LET r == rotate_point_z([k \in DOMAIN vertex.v |-> vertex.v[k][1]],
                                         [k \in DOMAIN vertex.v |-> vertex.v[k][2]], angle)
                 IN setitem(h, rotated_data, key,
                            [ndim |-> 2,
                             v |-> [k \in DOMAIN vertex.v |->
                                      <<r.x_rot[k], r.y_rot[k], vertex.v[k][3]>>]])
          ELSE h

\* rotate_z_axis(data, angle): the memory after the call and the dictionary
\* returned
rotate_z_axis(h, data, angle) ==
  LET c == dict_copy(h, data)
      rotated_data == c.ref
      \* x * cos_angle - y * sin_angle raises for arrays of different lengths
      raises == /\ {"hitx", "hity"} \subseteq DOMAIN h.dicts[data]
                /\ Len(getitem(h, data, "hitx").v[1]) # Len(getitem(h, data, "hity").v[1])
      h1 == IF raises THEN c.heap ELSE IF {"hitx", "hity"} \subseteq DOMAIN h.dicts[data]
              THEN LET r == rotate_point_z(getitem(h, data, "hitx").v[1],
                                           getitem(h, data, "hity").v[1], angle)
                   IN setitem(setitem(c.heap, rotated_data, "hitx", [ndim |-> 1, v |-> <<r.x_rot>>]),
                              rotated_data, "hity", [ndim |-> 1, v |-> <<r.y_rot>>])
              ELSE c.heap
      h2 == rotate_vector(h1, data, rotated_data, "vertex", angle)
      h3 == rotate_vector(h2, data, rotated_data, "particleStop", angle)
      h4 == rotate_vector(h3, data, rotated_data, "particleDir", angle)
  IN IF raises THEN [heap |-> c.heap, ret |-> 0]
     ELSE [heap |-> h4, ret |-> rotated_data]

\* the block repeated for 'vertex', 'particleStop' and 'particleDir'
\* (lines 139-160)
flip_vector(h, data, flipped_data, key) ==
  IF key \notin DOMAIN h.dicts[data] THEN h
  ELSE LET vertex == getitem(h, data, key)
       IN IF vertex.ndim = 1 /\ Len(vertex.v[1]) >= 3
            THEN setitem(h, flipped_data, key,
                         [ndim |-> 1, v |-> <<<<vertex.v[1][1], vertex.v[1][2], -vertex.v[1][3]>>>>])
          ELSE IF vertex.ndim = 2 /\ Len(vertex.v[1]) >= 3
            THEN setitem(h, flipped_data, key,
                         [ndim |-> 2,
                          v |-> [k \in DOMAIN vertex.v |->
                                   <<vertex.v[k][1], vertex.v[k][2], -vertex.v[k][3]>>]])
          ELSE h

\* flip_vertical(data)
flip_vertical(h, data) ==
  LET c == dict_copy(h, data)
      flipped_data == c.ref
      h1 == IF "hitz" \in DOMAIN h.dicts[data]
              THEN LET hitz == getitem(h, data, "hitz").v[1]
                   IN setitem(c.heap, flipped_data, "hitz",
                              [ndim |-> 1, v |-> <<[k \in DOMAIN hitz |-> -hitz[k]]>>])
              ELSE c.heap
      h2 == flip_vector(h1, data, flipped_data, "vertex")
      h3 == flip_vector(h2, data, flipped_data, "particleStop")
      h4 == flip_vector(h3, data, flipped_data, "particleDir")
  IN [heap |-> h4, ret |-> flipped_data]

\* an event dictionary is in memory and a transformation is about to be
\* called on it; args.before is the memory as it is at the call.  The
\* dictionary returned is result[1], 0 when the call has raised.
AugInit ==
  /\ ProjIdle
  /\ NbIdle
  /\ ViewIdle
  /\ callee = "none"
  /\ \E d \in EventDicts, angle \in 0..3 :
       /\ heap = MemoryOf(d)
       /\ args = [data |-> 1, angle |-> angle, before |-> MemoryOf(d)]
  /\ result = <<>>

CallRotateZ ==
  /\ callee = "none"
  /\ callee' = "rotate_z_axis"
  /\ LET r == rotate_z_axis(heap, args.data, args.angle)
     IN heap' = r.heap /\ result' = <<r.ret>>
  /\ UNCHANGED args
  /\ UNCHANGED <<projVars, nbVars, viewVars>>

CallFlipVertical ==
  /\ callee = "none"
  /\ callee' = "flip_vertical"
  /\ LET r == flip_vertical(heap, args.data)
     IN heap' = r.heap /\ result' = <<r.ret>>
  /\ UNCHANGED args
  /\ UNCHANGED <<projVars, nbVars, viewVars>>

AugNext == CallRotateZ \/ CallFlipVertical

AugSpec == AugInit /\ [][AugNext]_callVars

\* the dictionary given to the call, as it was at the call, and the
\* dictionary returned
DataBefore == args.before.dicts[args.data]
Returned == heap.dicts[result[1]]
ValueBefore(k) == args.before.arrays[DataBefore[k]]
ValueAfter(k) == heap.arrays[Returned[k]]

\* a transformation has returned a dictionary
AugReturned == callee \in {"rotate_z_axis", "flip_vertical"} /\ result[1] # 0

\* the input dictionary and all its arrays are as they were at the call
InputUntouched ==
  /\ heap.dicts[args.data] = DataBefore
  /\ \A a \in DOMAIN args.before.arrays : heap.arrays[a] = args.before.arrays[a]

\* the columns cols of the value of key k are as they were at the call
SameColumns(k, cols) ==
  /\ ValueAfter(k).ndim = ValueBefore(k).ndim
  /\ Len(ValueAfter(k).v) = Len(ValueBefore(k).v)
  /\ \A r \in DOMAIN ValueBefore(k).v : \A c \in cols :
       ValueAfter(k).v[r][c] = ValueBefore(k).v[r][c]

\* C26: rotate_z_axis returns a new dictionary and leaves unchanged the
\* input dictionary and its arrays, every z coordinate (hitz and the z
\* component of vertex, particleStop and particleDir) and every key other
\* than hitx, hity, vertex, particleStop and particleDir; flip_vertical
\* returns a new dictionary, leaves the input unchanged and changes only z
\* components.
C26_AugmentationFrame ==
  /\ callee # "none" => InputUntouched
  /\ AugReturned =>
       /\ result[1] # args.data
       /\ DOMAIN Returned = DOMAIN DataBefore
       /\ \A k \in DOMAIN DataBefore :
            IF k \in VectorKeys
              THEN SameColumns(k, IF callee = "rotate_z_axis" THEN {3} ELSE {1, 2})
            ELSE IF callee = "rotate_z_axis" /\ k \in {"hitx", "hity"} THEN TRUE
            ELSE IF callee = "flip_vertical" /\ k = "hitz"
              THEN Len(ValueAfter(k).v[1]) = Len(ValueBefore(k).v[1])
            ELSE Returned[k] = DataBefore[k]

\* rotate_z_axis has returned for a dictionary with hits, the three vectors
\* and another key, and the hit x coordinates have changed
C26_Witness ==
  /\ callee = "rotate_z_axis" /\ result[1] # 0
  /\ {"hitx", "hity", "hitz", "charge"} \cup VectorKeys \subseteq DOMAIN DataBefore
  /\ ValueAfter("hitx") # ValueBefore("hitx")
  /\ ValueAfter("vertex") # ValueBefore("vertex")

----------------------------------------------------------------------------
(* Morton codes: expand_bits and morton_3d of                               *)
(* src/geometries/scripts/compute_z_curves.py.                              *)
(*                                                                          *)
(* The intermediate values exceed 32 bits, so a Python integer is           *)
(* represented by the set of the positions of its one bits; sums and        *)
(* products are the binary ones, with carries.                              *)

\* coordinates are quantised to 10 bits
CoordBits == 10
\* the y and z of a triple are the MaxSample + 1 smallest and the
\* MaxSample + 1 largest coordinates; x is any coordinate
MaxSample == 1

MaxCoord == 2 ^ CoordBits - 1

\* int(x) for a coordinate: the positions of its one bits
Bits(v) == {k \in 0..(CoordBits - 1) : (v \div (2 ^ k)) % 2 = 1}

\* the largest element of a set of positions (0 for the empty set)
Top(a) == IF a = {} THEN 0 ELSE CHOOSE k \in a : \A j \in a : j <= k

\* a + b from position k up to position top, with the carry coming into
\* position k
RECURSIVE add_from(_, _, _, _, _)
add_from(a, b, k, carry, top) ==
  IF k > top THEN {}
  ELSE LET s == (IF k \in a THEN 1 ELSE 0) + (IF k \in b THEN 1 ELSE 0) + carry
       IN (IF s % 2 = 1 THEN {k} ELSE {}) \cup add_from(a, b, k + 1, s \div 2, top)

\* a + b, a << n, a & b and a * c on Python integers
Add(a, b) == add_from(a, b, 0, 0, Max2(Top(a), Top(b)) + 1)
Shl(a, n) == {k + n : k \in a}
And(a, b) == a \cap b
RECURSIVE Mul(_, _)
Mul(a, c) ==
  IF c = {} THEN {}
  ELSE LET s == CHOOSE s \in c : TRUE
       IN IF c = {s} THEN Shl(a, s) ELSE Add(Shl(a, s), Mul(a, c \ {s}))

\* the multipliers 0x00010001, 0x00000101, 0x00000011, 0x00000005
x00010001 == {0, 16}
x00000101 == {0, 8}
x00000011 == {0, 4}
x00000005 == {0, 2}

\* the masks 0xFF0000FF, 0x0F00F00F, 0xC30C30C3, 0x49249249
xFF0000FF == (0..7) \cup (24..31)
x0F00F00F == (0..3) \cup (12..15) \cup (24..27)
xC30C30C3 == {0, 1, 6, 7, 12, 13, 18, 19, 24, 25, 30, 31}
x49249249 == {3 * k : k \in 0..10}

\* expand_bits without its last line
expand_bits_short(v) ==
  LET v1 == And(Mul(v, x00010001), xFF0000FF)
      v2 == And(Mul(v1, x00000101), x0F00F00F)
  IN And(Mul(v2, x00000011), xC30C30C3)

\* expand_bits(v)
expand_bits(v) ==
  LET v1 == And(Mul(v, x00010001), xFF0000FF)
      v2 == And(Mul(v1, x00000101), x0F00F00F)
      v3 == And(Mul(v2, x00000011), xC30C30C3)
  IN And(Mul(v3, x00000005), x49249249)

\* morton_3d(x, y, z)
morton_3d(x, y, z) ==
  LET xx == expand_bits(Bits(x))
      yy == expand_bits(Bits(y))
      zz == expand_bits(Bits(z))
  IN Add(Add(Shl(xx, 2), Shl(yy, 1)), zz)

\* the coordinates tried for y and z
SampleCoords == (0..MaxSample) \cup ((MaxCoord - MaxSample)..MaxCoord)

\* expand_bits is about to be called on a value of 0..1023, or morton_3d on
\* a triple of quantised coordinates
ZInit ==
  /\ ProjIdle
  /\ NbIdle
  /\ ViewIdle
  /\ callee = "none"
  /\ args \in {<<v>> : v \in 0..MaxCoord}
               \cup {<<x, y, z>> : x \in 0..MaxCoord, y \in SampleCoords, z \in SampleCoords}
  /\ heap = <<>>
  /\ result = {}

CallExpandBits ==
  /\ callee = "none"
  /\ Len(args) = 1
  /\ callee' = "expand_bits"
  /\ result' = expand_bits(Bits(args[1]))
  /\ UNCHANGED <<args, heap>>
  /\ UNCHANGED <<projVars, nbVars, viewVars>>

CallMorton3d ==
  /\ callee = "none"
  /\ Len(args) = 3
  /\ callee' = "morton_3d"
  /\ result' = morton_3d(args[1], args[2], args[3])
  /\ UNCHANGED <<args, heap>>
  /\ UNCHANGED <<projVars, nbVars, viewVars>>

ZNext == CallExpandBits \/ CallMorton3d

ZSpec == ZInit /\ [][ZNext]_callVars

\* the coordinate whose bits sit at the positions 3k + offset of a code
Decode(code, offset) == {k \in 0..(CoordBits - 1) : 3 * k + offset \in code}

\* C27: for every v of 0..1023, expand_bits(v) has bit k of v at position 3k
\* and no other bit; the Morton code of a triple of 0..1023 fits in 30 bits
\* and determines the triple (x from the positions 3k + 2, y from 3k + 1, z
\* from 3k), so two different triples never have the same code.
C27_MortonInjective ==
  /\ callee = "expand_bits" => result = {3 * k : k \in Bits(args[1])}
  /\ callee = "morton_3d" =>
       /\ result \subseteq 0..(3 * CoordBits - 1)
       /\ Decode(result, 2) = Bits(args[1])
       /\ Decode(result, 1) = Bits(args[2])
       /\ Decode(result, 0) = Bits(args[3])

\* the code of the largest triple has been computed: all of its 30 bits are
\* set
C27_Witness ==
  /\ callee = "morton_3d"
  /\ args = <<MaxCoord, MaxCoord, MaxCoord>>
  /\ result = 0..(3 * CoordBits - 1)

----------------------------------------------------------------------------
(* The 2D display: tk_2d_display of src/src/displays/tk_2d_display.py, fed  *)
(* by load_data_from_root.                                                  *)
(*                                                                          *)
(* The content of the entry box is a sequence of characters.  The handler   *)
(* of a widget ends by drawing the canvas ("drawn"), by raising ("raised")  *)
(* or by returning without calling plot ("ignored").                        *)

\* the decimal digits, in order
Digits == <<"0", "1", "2", "3", "4", "5", "6", "7", "8", "9">>

\* the value of a decimal digit
DigitValue(c) == CHOOSE d \in 0..9 : Digits[d + 1] = c

\* str(n), as wB.insert(0, n) writes an integer
RECURSIVE str(_)
str(n) ==
  IF n < 0 THEN <<"-">> \o str(0 - n)
  ELSE IF n < 10 THEN <<Digits[n + 1]>>
  ELSE str(n \div 10) \o <<Digits[(n % 10) + 1]>>

\* s.isdigit(): s is not empty and each of its characters is a digit; the
\* superscript two is a digit for isdigit
isdigit(s) == s # <<>> /\ \A k \in DOMAIN s : s[k] \in Elems(Digits) \cup {"²"}

\* int(s) raises ValueError: a character of s is not a decimal digit
IntRaises(s) == s = <<>> \/ \E k \in DOMAIN s : s[k] \notin Elems(Digits)

\* int(s) for a string of decimal digits
RECURSIVE int(_)
int(s) ==
  IF s = <<>> THEN 0
  ELSE 10 * int(SubSeq(s, 1, Len(s) - 1)) + DigitValue(s[Len(s)])

\* event_indices.index(v): the first position of v, counted from 0
index(s, v) == (CHOOSE k \in DOMAIN s : s[k] = v /\ \A j \in 1..(k - 1) : s[j] # v) - 1

\* the value a Scale from 0 to n - 1 takes when it is set to k
scale_set(k, n) == Max2(0, Min2(k, n - 1))

\* what the user types in the entry box
EntryTexts ==
  {<<>>, <<"x">>, <<"²">>, <<"-", "1">>, <<"0", "1">>}
    \cup {str(i) : i \in 0..MaxFileEvents}

\* tk_2d_display is called with the events loaded and bounds as
\* event_indices: it builds the window, or raises in update_time_slider(0)
\* when no event was loaded
OpenDisplay ==
  /\ vpc = "loaded"
  /\ impl = "root"
  /\ LET indices == IF bounds[1] = bounds[Len(bounds)] THEN <<bounds[1]>> ELSE bounds
     IN /\ event_indices' = indices
        /\ IF all_data = <<>>
             THEN vpc' = "not_opened" /\ UNCHANGED <<wE, wB, last>>
             ELSE /\ vpc' = "display"
                  /\ wE' = 0
                  /\ wB' = str(indices[1])
                  /\ last' = "open"
  /\ UNCHANGED <<events_to_display, n_events, impl, is_contiguous, bounds,
                 all_data, shown, outcome>>
  /\ UNCHANGED <<projVars, nbVars, callVars>>

\* plot('event_slider') with the event slider at position k: the entry box
\* is rewritten, then update_time_slider(k) raises when k is not the
\* position of a loaded event, else the event at position k is drawn
plot_event_slider(k) ==
  /\ wB' = str(event_indices[k + 1])
  /\ IF k >= Len(all_data)
       THEN outcome' = "raised" /\ shown' = shown
       ELSE outcome' = "drawn" /\ shown' = all_data[k + 1]

\* the user moves the event slider to position k (or Tk calls the command of
\* the slider after its value was set)
EventSlider(k) ==
  /\ vpc = "display"
  /\ wE' = k
  /\ plot_event_slider(k)
  /\ last' = "event_slider"
  /\ UNCHANGED <<events_to_display, n_events, impl, vpc, is_contiguous, bounds,
                 all_data, event_indices>>
  /\ UNCHANGED <<projVars, nbVars, callVars>>

\* the tests of go_previous and go_next
go_previous_guard(current_index) == current_index > 0
go_next_guard_inclusive(current_index, n) == current_index < n
go_next_guard(current_index, n) == current_index < n - 1

\* go_previous
GoPrevious ==
  /\ vpc = "display"
  /\ IF go_previous_guard(wE)
       THEN LET k == scale_set(wE - 1, Len(event_indices))
            IN wE' = k /\ plot_event_slider(k)
       ELSE outcome' = "ignored" /\ UNCHANGED <<wE, wB, shown>>
  /\ last' = "previous"
  /\ UNCHANGED <<events_to_display, n_events, impl, vpc, is_contiguous, bounds,
                 all_data, event_indices>>
  /\ UNCHANGED <<projVars, nbVars, callVars>>

\* go_next
GoNext ==
  /\ vpc = "display"
  /\ IF go_next_guard(wE, Len(event_indices))
       THEN LET k == scale_set(wE + 1, Len(event_indices))
            IN wE' = k /\ plot_event_slider(k)
       ELSE outcome' = "ignored" /\ UNCHANGED <<wE, wB, shown>>
  /\ last' = "next"
  /\ UNCHANGED <<events_to_display, n_events, impl, vpc, is_contiguous, bounds,
                 all_data, event_indices>>
  /\ UNCHANGED <<projVars, nbVars, callVars>>

\* the user replaces the content of the entry box
TypeEntry(text) ==
  /\ vpc = "display"
  /\ wB' = text
  /\ last' = "typed"
  /\ UNCHANGED <<events_to_display, n_events, impl, vpc, is_contiguous, bounds,
                 all_data, event_indices, wE, shown, outcome>>
  /\ UNCHANGED <<projVars, nbVars, callVars>>

\* Display Event: plot('entry_box')
DisplayEvent ==
  /\ vpc = "display"
  /\ last' = "entry_box"
  /\ IF isdigit(wB) /\ IntRaises(wB)
       THEN \* int() raises at line 85
            outcome' = "raised" /\ UNCHANGED <<wE, wB, shown>>
       ELSE LET \* a string is never among the integers of event_indices
                known == isdigit(wB) /\ int(wB) \in Elems(event_indices)
                event_index_original == IF known THEN int(wB) ELSE event_indices[1]
                event_index == index(event_indices, event_index_original)
            IN /\ wB' = IF known THEN wB ELSE str(event_index_original)
               /\ wE' = scale_set(event_index, Len(event_indices))
               /\ IF event_index >= Len(all_data)
                    THEN outcome' = "raised" /\ shown' = shown
                    ELSE outcome' = "drawn" /\ shown' = all_data[event_index + 1]
  /\ UNCHANGED <<events_to_display, n_events, impl, vpc, is_contiguous, bounds,
                 all_data, event_indices>>
  /\ UNCHANGED <<projVars, nbVars, callVars>>

\* the time slider moves (or Tk calls its command after wt.set):
\* plot('time_slider') draws the event at the position of the event slider
TimeSlider ==
  /\ vpc = "display"
  /\ last' = "time_slider"
  /\ IF wE >= Len(all_data)
       THEN outcome' = "raised" /\ shown' = shown
       ELSE outcome' = "drawn" /\ shown' = all_data[wE + 1]
  /\ UNCHANGED <<events_to_display, n_events, impl, vpc, is_contiguous, bounds,
                 all_data, event_indices, wE, wB>>
  /\ UNCHANGED <<projVars, nbVars, callVars>>

\* 2D_display_from_root.py: the events are selected and loaded by
\* load_data_from_root, then displayed
DisplayInit == ViewInit /\ impl = "root"

DisplayNext ==
  \/ Select
  \/ Load
  \/ OpenDisplay
  \/ \E k \in 0..(Len(event_indices) - 1) : EventSlider(k)
  \/ GoPrevious
  \/ GoNext
  \/ \E text \in EntryTexts : TypeEntry(text)
  \/ DisplayEvent
  \/ TimeSlider

DisplaySpec == DisplayInit /\ [][DisplayNext]_viewVars

\* the content of the entry box is a string of decimal digits
DecimalString(s) == s # <<>> /\ \A k \in DOMAIN s : s[k] \in Elems(Digits)

\* the content of the entry box does not name a displayed event: it is not a
\* string of digits, or it is an integer that is not in event_indices
NoSuchEvent(s) == ~DecimalString(s) \/ int(s) \notin Elems(event_indices)

\* the first event is displayed: the event slider is at position 0, the
\* entry box holds event_indices[0] and the handler has drawn
FirstEventDisplayed ==
  /\ wE = 0
  /\ wB = str(event_indices[1])
  /\ outcome = "drawn"

\* C28: Display Event pressed on an entry-box content that is not a string
\* of digits, or that is an integer not among the displayed event indices,
\* displays the first event: the slider goes to position 0, the entry box is
\* reset to event_indices[0] and the handler completes without raising.
C28_BadEntryShowsFirst ==
  [][(DisplayEvent /\ NoSuchEvent(wB)) => FirstEventDisplayed']_viewVars

\* The same for the contents that isdigit() rejects and for the decimal
\* integers that are not displayed: these do display the first event.
C28_RejectedEntryShowsFirst ==
  [][(DisplayEvent /\ NoSuchEvent(wB) /\ ~(isdigit(wB) /\ IntRaises(wB)))
       => FirstEventDisplayed']_viewVars

\* the handler changed nothing and did not redraw
NothingDone == outcome' = "ignored" /\ UNCHANGED <<wE, wB, shown>>

\* the last position of the event slider
LastPosition == Len(event_indices) - 1

\* C29: whatever the user does with Previous, Next, the event slider, the
\* time slider and Display Event, the position k of the event slider stays
\* within 0..len(event_indices)-1; Previous at position 0 and Next at the
\* last position change nothing and do not redraw; otherwise Previous moves
\* k down by exactly one and Next moves it up by exactly one.
C29_SliderStaysInRange ==
  /\ [](vpc = "display" => wE \in 0..LastPosition)
  /\ [][GoPrevious => IF wE = 0 THEN NothingDone ELSE wE' = wE - 1]_viewVars
  /\ [][GoNext => IF wE = LastPosition THEN NothingDone ELSE wE' = wE + 1]_viewVars

\* Next was pressed at the last of several positions and was ignored
C29_Witness ==
  /\ vpc = "display"
  /\ last = "next"
  /\ outcome = "ignored"
  /\ wE = LastPosition
  /\ wE > 0

\* the last action selected an event: the event slider, Previous or Next
\* when it acted, or Display Event
EventSelected ==
  /\ vpc = "display"
  /\ last \in {"event_slider", "previous", "next", "entry_box"}
  /\ outcome # "ignored"

\* the entry box shows the integer n
Shows(s, n) == DecimalString(s) /\ int(s) = n

\* C30: in the display fed by load_data_from_root, after every action that
\* selects an event the entry box shows event_indices[k] for the position k
\* of the event slider, and the hits drawn are those of the event whose
\* index in the file is event_indices[k], whatever the accepted form of
\* events_to_display.
C30_EntryAndHitsMatchSlider ==
  EventSelected =>
    /\ Shows(wB, event_indices[wE + 1])
    /\ shown = event_indices[wE + 1]

\* the list holds no index twice
NoRepeat(s) == \A j, k \in DOMAIN s : j # k => s[j] # s[k]

\* The same for the forms whose event_indices name the events loaded one
\* for one ('all', a valid int, a valid list without repeated index), the
\* handler not ending in the ValueError of int().
C30_MatchWhenIndicesAreTheLoadedEvents ==
  (/\ EventSelected
   /\ ~Invalid(events_to_display, n_events)
   /\ \/ events_to_display.kind \in {"all", "int"}
      \/ events_to_display.kind = "list" /\ NoRepeat(events_to_display.v)
   /\ outcome # "raised") =>
    /\ Shows(wB, event_indices[wE + 1])
    /\ shown = event_indices[wE + 1]

====
